---- MODULE Spec2Model ----
(***************************************************************************)
(* Regenesis surgery: the account handlers, the surgery loop, the dump     *)
(* reader and validator, and the solc input resolver.                      *)
(*                                                                         *)
(* JavaScript strings on which the code works character by character       *)
(* (addresses, byte code, source text, hex fields of the dump) are         *)
(* sequences of one-character strings; names that the code only passes     *)
(* around or uses as object keys are TLA+ strings.                         *)
(***************************************************************************)
EXTENDS Integers, Sequences, FiniteSets, TLC

VARIABLES
    vPhase,     \* VERIFIED handler call: "idle" before the call, "called" after
    vInput,     \* the arguments of the call and the compiler's answers
    vCaller,    \* the caller's account record, as it is after the call
    vResult,    \* completion of the call: a returned account or a thrown error
    vSolc,      \* the getSolc calls made, in order
    sPc,        \* surgery loop of main: "idle", "loop", "done" or "failed"
    sDump,      \* the accounts the loop iterates over
    sData,      \* the SurgeryDataSources
    sIndex,     \* number of accounts processed
    sOutput,    \* the output list
    sRpc,       \* the getCode requests issued, in order
    rLines,     \* readDumpFile: the lines of the dump file
    rPos,       \* number of lines the stream has emitted
    rIsFirstRow,\* isFirstRow
    rDump,      \* dump, the StateDumpRoot under construction
    rStream,    \* "idle", "flowing", "ended", or "crashed" by an uncaught exception
    rPromise,   \* the promise readDumpFile returned
    cPhase,     \* checkStateDumpRoot: "idle" before the call, "called" after
    cDump,      \* the dump passed to it
    cAfter,     \* that dump as it is after the call
    cResult,    \* "ok" when it completed, else the failed assertion
    iPhase,     \* solcInput: "idle" before the calls, "called" after
    iContract,  \* the archived record with the plain source text
    iPlain,     \* solcInput of that record
    iWrapped,   \* solcInput of the record with the source wrapped in braces
    dPc,        \* batch driver: "off", "idle", "ranged", "crafted", "submitted", "failed", "panicked"
    dChain,     \* what the L1 and L2 endpoints and the oracle contract answer
    dRange,     \* the last GetBatchBlockRange call: the answers it saw and its result
    dCraft,     \* the CraftBatchTx call: arguments, answers it saw and result
    dSubmit,    \* the SubmitBatchTx call: its result
    dPublished  \* the transactions sent to the L1 endpoint, in order

verifiedVars == <<vPhase, vInput, vCaller, vResult, vSolc>>
surgeryVars == <<sPc, sDump, sData, sIndex, sOutput, sRpc>>
readerVars == <<rLines, rPos, rIsFirstRow, rDump, rStream, rPromise>>
checkVars == <<cPhase, cDump, cAfter, cResult>>
inputVars == <<iPhase, iContract, iPlain, iWrapped>>
driverVars == <<dPc, dChain, dRange, dCraft, dSubmit, dPublished>>
vars == <<verifiedVars, surgeryVars, readerVars, checkVars, inputVars, driverVars>>

(***************************************************************************)
(* Bounds of the model.                                                    *)
(***************************************************************************)
MaxCodeLen == 3     \* deployed byte code holds 2..MaxCodeLen characters
MaxOcc == 2         \* occurrences of immutables in one artifact, all names together
MaxDump == 2        \* accounts in the dump the surgery loop runs over
MaxLines == 3       \* lines of the dump file
MaxTime == 4         \* L1 and oracle timestamps are 0..MaxTime
MaxEntries == 2     \* accounts of the dump that is validated

(***************************************************************************)
(* JavaScript values.                                                      *)
(***************************************************************************)
Min(a, b) == IF a < b THEN a ELSE b
Max(a, b) == IF a > b THEN a ELSE b

\* String.prototype.slice(a, b) for a, b >= 0
Slice(s, a, b) ==
    LET from == Min(a, Len(s))
        to == Min(b, Len(s))
    IN  IF from >= to THEN <<>> ELSE SubSeq(s, from + 1, to)

\* String.prototype.slice(a) for a >= 0
SliceFrom(s, a) == Slice(s, a, Len(s))

\* String.prototype.startsWith
StartsWith(s, prefix) ==
    /\ Len(s) >= Len(prefix)
    /\ SubSeq(s, 1, Len(prefix)) = prefix

\* obj[key] of a JavaScript object: Has(obj, key) tells a defined value
Has(obj, key) == key \in DOMAIN obj

\* the object spread { ...a, ...b }
Spread(a, b) ==
    [k \in (DOMAIN a) \cup (DOMAIN b) |-> IF k \in DOMAIN b THEN b[k] ELSE a[k]]

\* completions of a call
Return(acc) == [kind |-> "return", account |-> acc]
ReturnUndefined == [kind |-> "undefined"]
Throw(err) == [kind |-> "throw", error |-> err]

\* new Error(`...`): the message is the sequence of its template parts
Lit(text) == [lit |-> text]
AddrPart(address) == [addr |-> address]
VersionPart(version) == [ver |-> version]
NumPart(n) == [num |-> n]
Error(message) == [name |-> "Error", message |-> message]
\* reading a property of undefined
TypeError == [name |-> "TypeError", message |-> <<Lit("Cannot read property of undefined")>>]

Zeros(n) == [i \in 1..n |-> "0"]
\* a 20-byte address as a hex string: 0x, zero padding, and the given tail
Addr(tail) == <<"0", "x">> \o Zeros(40 - Len(tail)) \o tail

\* ethers.utils.keccak256: an injective function of its argument
Keccak256(data) == <<"keccak256", data>>

\* add0x of core-utils
Add0x(s) == IF StartsWith(s, <<"0", "x">>) THEN s ELSE <<"0", "x">> \o s

(***************************************************************************)
(* utils.ts: compiler sessions.                                            *)
(***************************************************************************)
\* constants.ts is not part of the sources: one archived compiler version is
\* known and maps to the solc release that replaces it
COMPILER_VERSIONS_TO_SOLC == [x \in {"v0.5.16"} |-> "v0.5.17+commit.d19bba13"]

\* getSolc(version, ovm?): the module that is loaded
GetSolc(version, ovm) ==
    IF ovm
    THEN [module |-> version, toolchain |-> "ovm"]
    ELSE [module |-> version, toolchain |-> "solc-emscripten-wasm32"]

(***************************************************************************)
(* handlers.ts: the VERIFIED handler.                                      *)
(***************************************************************************)
\* Array.prototype.find: the first index among those that satisfy the
\* predicate, 0 when there is none
FirstIndex(hits) ==
    IF hits = {} THEN 0 ELSE CHOOSE i \in hits : \A j \in hits : i <= j

\* the file name is used when it is truthy: present and not empty
HasFileName(contract) ==
    Has(contract, "contractFileName") /\ contract.contractFileName # ""

\* output.contracts[contractFileName][contractName], or .file[contractName]:
\* "TypeError" when the file entry (or contracts) is undefined, "undefined"
\* when the contract key is, else "found"
ContractLookup(output, contract) ==
    LET file == IF HasFileName(contract) THEN contract.contractFileName ELSE "file"
    IN  IF ~Has(output, "contracts") THEN "TypeError"
        ELSE IF ~Has(output.contracts, file) THEN "TypeError"
        ELSE IF ~Has(output.contracts[file], contract.contractName) THEN "undefined"
        ELSE "found"

ContractOutput(output, contract) ==
    LET file == IF HasFileName(contract) THEN contract.contractFileName ELSE "file"
    IN  output.contracts[file][contract.contractName]

\* Object.entries of an object with integer keys lists them in ascending order
RECURSIVE SortedKeys(_)
SortedKeys(keys) ==
    IF keys = {} THEN <<>>
    ELSE LET k == CHOOSE x \in keys : \A y \in keys : x <= y
         IN  <<k>> \o SortedKeys(keys \ {k})

\* the byte code a splice starts from: read again from the compiler output
WorkingObject(mainObject, working) == mainObject

\* a mutant of LengthMismatch: the check of line 190 left out
LengthMismatchIgnored(ref, ovmRef) == FALSE

\* line 190: the two ranges at one position differ in length
LengthMismatch(ref, ovmRef) == ref.length # ovmRef.length

\* pre + immutable + post
SpliceBytes(object, ref, immutable) ==
    Slice(object, 0, ref.start) \o immutable \o SliceFrom(object, ref.start + ref.length)

\* the inner loop: the occurrences i.. of one immutable
RECURSIVE SpliceOccurrences(_, _, _, _, _, _)
SpliceOccurrences(value, ovmValue, i, mainObject, ovmObject, working) ==
    IF i > Len(value) THEN [kind |-> "normal", account |-> working]
    ELSE IF i > Len(ovmValue)
    THEN [kind |-> "throw", account |-> working, error |-> TypeError]
    ELSE
    LET ref == value[i]
        ovmRef == ovmValue[i]
        immutable == Slice(ovmObject, ovmRef.start, ovmRef.start + ovmRef.length)
        object == WorkingObject(mainObject, working)
        bytecode == SpliceBytes(object, ref, immutable)
    IN  IF LengthMismatch(ref, ovmRef)
        THEN [kind |-> "throw", account |-> working,
              error |-> Error(<<Lit("length mismatch")>>)]
        ELSE IF Len(bytecode) # Len(object)
        THEN [kind |-> "throw", account |-> working,
              error |-> Error(<<Lit("mismatch in size: "), NumPart(Len(bytecode)),
                                Lit(" vs "), NumPart(Len(object))>>)]
        ELSE SpliceOccurrences(value, ovmValue, i + 1, mainObject, ovmObject,
                 [working EXCEPT !.code = bytecode, !.codeHash = Keccak256(bytecode)])

\* the outer loop: the immutables keys[k..]
RECURSIVE SpliceImmutables(_, _, _, _, _, _, _)
SpliceImmutables(keys, k, immutableRefs, ovmImmutableRefs, mainObject, ovmObject, working) ==
    IF k > Len(keys) THEN [kind |-> "normal", account |-> working]
    ELSE IF ~Has(ovmImmutableRefs, keys[k])
    THEN [kind |-> "throw", account |-> working,
          error |-> Error(<<Lit("cannot find ast in ovm compiler output")>>)]
    ELSE
    LET done == SpliceOccurrences(immutableRefs[keys[k]], ovmImmutableRefs[keys[k]], 1,
                                  mainObject, ovmObject, working)
    IN  IF done.kind = "throw" THEN done
        ELSE SpliceImmutables(keys, k + 1, immutableRefs, ovmImmutableRefs,
                              mainObject, ovmObject, done.account)

\* lines 155-223: the relocation of the immutables
RelocateImmutables(contract, mainOutput, compiler, working) ==
    LET deployed == mainOutput.evm.deployedBytecode
        ovmSolc == GetSolc(contract.compilerVersion, FALSE)
        ovmOutput == compiler[ovmSolc]
    IN  IF ~Has(deployed, "immutableReferences") \/ DOMAIN deployed.immutableReferences = {}
        THEN [kind |-> "normal", account |-> working, solc |-> <<>>]
        ELSE IF ContractLookup(ovmOutput, contract) # "found"
        THEN [kind |-> "throw", account |-> working, error |-> TypeError, solc |-> <<ovmSolc>>]
        ELSE
        LET ovmDeployed == ContractOutput(ovmOutput, contract).evm.deployedBytecode
        IN  IF ~Has(ovmDeployed, "immutableReferences")
            THEN [kind |-> "throw", account |-> working, error |-> TypeError,
                  solc |-> <<ovmSolc>>]
            ELSE
            LET r == SpliceImmutables(SortedKeys(DOMAIN deployed.immutableReferences), 1,
                                      deployed.immutableReferences,
                                      ovmDeployed.immutableReferences,
                                      deployed.object, ovmDeployed.object, working)
            IN  Spread(r, [solc |-> <<ovmSolc>>])

\* a mutant of CallerAccountAfter: line 114 left out, the handler writes
\* to the record the caller passed
CallerAccountAliased(account, working) == working

\* line 114: the handler works on a copy, so the caller's record is the
\* one it passed, whatever the working record has become
CallerAccountAfter(account, working) == account

\* handlers[AccountType.VERIFIED](account, data); compiler[session] is the
\* answer of session.compile to the solc input of the contract
VerifiedRun(account, data, compiler) ==
    LET working == Spread(account, <<>>)
        idx == FirstIndex({i \in 1..Len(data.etherscanDump) :
                              data.etherscanDump[i].contractAddress = account.address})
    IN  IF idx = 0
        THEN [kind |-> "throw", account |-> working, solc |-> <<>>,
              error |-> Error(<<Lit("Unable to find "), AddrPart(account.address),
                                Lit(" in etherscan dump")>>)]
        ELSE
        LET contract == data.etherscanDump[idx]
        IN  IF contract.compilerVersion \notin DOMAIN COMPILER_VERSIONS_TO_SOLC
            THEN [kind |-> "throw", account |-> working, solc |-> <<>>,
                  error |-> Error(<<Lit("Unable to find solc version "),
                                    VersionPart(contract.compilerVersion)>>)]
            ELSE
            LET currSolc == GetSolc(COMPILER_VERSIONS_TO_SOLC[contract.compilerVersion], FALSE)
                output == compiler[currSolc]
            IN  IF ~Has(output, "contracts")
                THEN [kind |-> "throw", account |-> working, solc |-> <<currSolc>>,
                      error |-> Error(<<Lit("Cannot compile "),
                                        AddrPart(contract.contractAddress)>>)]
                ELSE IF ContractLookup(output, contract) = "TypeError"
                THEN [kind |-> "throw", account |-> working, solc |-> <<currSolc>>,
                      error |-> TypeError]
                ELSE IF ContractLookup(output, contract) = "undefined"
                THEN [kind |-> "throw", account |-> working, solc |-> <<currSolc>>,
                      error |-> Error(<<Lit("Contract filename mismatch: "),
                                        AddrPart(contract.contractAddress)>>)]
                ELSE
                LET mainOutput == ContractOutput(output, contract)
                    code == mainOutput.evm.deployedBytecode.object
                    compiled == Spread(working,
                                  [code |-> code, codeHash |-> Keccak256(Add0x(code))])
                    r == RelocateImmutables(contract, mainOutput, compiler, compiled)
                IN  [r EXCEPT !.solc = <<currSolc>> \o r.solc]

\* what the caller observes of the call
VerifiedHandler(account, data, compiler) ==
    LET r == VerifiedRun(account, data, compiler)
    IN  [completion |-> IF r.kind = "throw" THEN Throw(r.error) ELSE Return(r.account),
         caller |-> CallerAccountAfter(account, r.account),
         solc |-> r.solc]

(***************************************************************************)
(* Inputs of the VERIFIED handler.                                         *)
(***************************************************************************)
VerifiedAddress == Addr(<<"a", "b">>)
ChecksumAddress == Addr(<<"A", "b">>)     \* the same address in mixed case

LegacyCode == <<"l1", "l2">>

VerifiedAccount ==
    [address |-> VerifiedAddress, nonce |-> 0, balance |-> <<"0">>,
     codeHash |-> Keccak256(Add0x(LegacyCode)), root |-> Keccak256(<<"r">>),
     code |-> LegacyCode]

\* an account that carries storage as well
VerifiedAccountWithStorage ==
    Spread([VerifiedAccount EXCEPT !.nonce = 7],
           [storage |-> [k \in {"k1"} |-> <<"v", "1">>]])

EtherscanRecord(address, version) ==
    [contractAddress |-> address, compilerVersion |-> version, contractName |-> "Token",
     sourceCode |-> <<[word |-> "contract"]>>, optimizationUsed |-> "1",
     runs |-> <<"2", "0", "0">>]

EtherscanRecords ==
    LET plain == {EtherscanRecord(a, v) : a \in {VerifiedAddress, ChecksumAddress},
                                          v \in {"v0.5.16", "v0.4.0"}}
    IN  plain \cup {Spread(c, [contractFileName |-> "Token.sol"]) : c \in plain}

GoodRecord == EtherscanRecord(VerifiedAddress, "v0.5.16")

\* the two compiler sessions a known record leads to
StdSession == GetSolc(COMPILER_VERSIONS_TO_SOLC["v0.5.16"], FALSE)
PairedSession == GetSolc("v0.5.16", FALSE)

NewChars == <<"n1", "n2", "n3", "n4", "n5", "n6">>
OvmChars == <<"o1", "o2", "o3", "o4", "o5", "o6">>
CodeLens == 2..MaxCodeLen
NewObject(len) == SubSeq(NewChars, 1, len)
OvmObject(len) == SubSeq(OvmChars, 1, len)

ImmutableNames == {1, 2}       \* AST ids
\* the {start, length} ranges: two disjoint ones, and a longer one that
\* overlaps the second and ends past a byte code of two characters
Ranges ==
    {[start |-> 0, length |-> 1], [start |-> 1, length |-> 1], [start |-> 1, length |-> 2]}
OccurrenceLists == UNION {[1..n -> Ranges] : n \in 1..MaxOcc}

RECURSIVE SumLen(_, _)
SumLen(t, keys) ==
    IF keys = {} THEN 0
    ELSE LET k == CHOOSE x \in keys : TRUE
         IN  Len(t[k]) + SumLen(t, keys \ {k})
TotalOcc(t) == SumLen(t, DOMAIN t)

\* immutableReferences tables: name -> list of {start, length}
RefTables ==
    {t \in UNION {[S -> OccurrenceLists] : S \in SUBSET ImmutableNames} :
        TotalOcc(t) <= MaxOcc}

EmptyObject == [k \in {} |-> 0]

Artifact(object, refs) ==
    [evm |-> [deployedBytecode |-> [object |-> object, immutableReferences |-> refs]]]
ArtifactNoRefs(object) ==
    [evm |-> [deployedBytecode |-> [object |-> object]]]
OutputWith(file, artifact) ==
    [contracts |-> [f \in {file} |-> [n \in {"Token"} |-> artifact]]]

\* compiler answers without the wanted contract
FailedOutputs ==
    {[errors |-> "error"], [contracts |-> EmptyObject]}
    \cup {[contracts |-> [f \in {file} |-> EmptyObject]] : file \in {"file", "Token.sol"}}
    \cup {[contracts |-> [f \in {file} |-> [n \in {"Other"} |-> ArtifactNoRefs(NewObject(2))]]] :
            file \in {"file", "Token.sol"}}

OneRef == [k \in {1} |-> <<[start |-> 0, length |-> 1]>>]

\* answers used to exercise the lookup of the record and of the contract key
LookupOutputs(object) ==
    FailedOutputs
    \cup {OutputWith(file, art) : file \in {"file", "Token.sol"},
                                  art \in {ArtifactNoRefs(object), Artifact(object, OneRef)}}

\* answers used to exercise the relocation
RelocationOutputs(objects) ==
    {OutputWith("file", Artifact(o, t)) : o \in objects, t \in RefTables}
    \cup {OutputWith("file", ArtifactNoRefs(o)) : o \in objects}

Compiler(std, paired) ==
    [s \in {StdSession, PairedSession} |-> IF s = StdSession THEN std ELSE paired]

\* the etherscan dumps used to exercise the lookup
LookupDumps ==
    {<<>>} \cup {<<c>> : c \in EtherscanRecords}
    \cup {<<EtherscanRecord(ChecksumAddress, "v0.4.0"), GoodRecord>>}

(***************************************************************************)
(* The call of the VERIFIED handler.                                       *)
(***************************************************************************)
VerifiedIdle ==
    /\ vPhase = "idle"
    /\ vInput = <<>>
    /\ vCaller = <<>>
    /\ vResult = <<>>
    /\ vSolc = <<>>

VerifiedCall(account, data, compiler) ==
    LET r == VerifiedHandler(account, data, compiler)
    IN  /\ vInput' = [account |-> account, data |-> data, compiler |-> compiler]
        /\ vCaller' = r.caller
        /\ vResult' = r.completion
        /\ vSolc' = r.solc
        /\ vPhase' = "called"
        /\ UNCHANGED <<surgeryVars, readerVars, checkVars, inputVars, driverVars>>

\* a call that exercises the lookup of the record and of the contract key
HandleVerifiedLookup ==
    /\ vPhase = "idle"
    /\ \E a \in {VerifiedAccount, VerifiedAccountWithStorage}, d \in LookupDumps,
          std \in LookupOutputs(NewObject(2)), ovm \in LookupOutputs(OvmObject(2)) :
         VerifiedCall(a, [etherscanDump |-> d], Compiler(std, ovm))

\* a call that exercises the relocation of the immutables
HandleVerifiedRelocate ==
    /\ vPhase = "idle"
    /\ \E std \in RelocationOutputs({NewObject(n) : n \in CodeLens}),
          ovm \in RelocationOutputs({OvmObject(n) : n \in CodeLens}) :
         VerifiedCall(VerifiedAccount, [etherscanDump |-> <<GoodRecord>>],
                      Compiler(std, ovm))


(***************************************************************************)
(* utils.ts: findAccount.                                                  *)
(***************************************************************************)
HexDigits ==
    {"0", "1", "2", "3", "4", "5", "6", "7", "8", "9",
     "a", "b", "c", "d", "e", "f", "A", "B", "C", "D", "E", "F"}

\* String.prototype.toLowerCase on one character
LowerChar(c) ==
    CASE c = "A" -> "a" [] c = "B" -> "b" [] c = "C" -> "c"
      [] c = "D" -> "d" [] c = "E" -> "e" [] c = "F" -> "f"
      [] c = "X" -> "x" [] OTHER -> c

ToLowerCase(s) == [i \in 1..Len(s) |-> LowerChar(s[i])]

\* ethers.utils.isHexString: 0x followed by hex digits
IsHexString(s) ==
    /\ StartsWith(s, <<"0", "x">>)
    /\ \A i \in 3..Len(s) : s[i] \in HexDigits

\* hexStringEqual(a, b): "throw" when one of them is no hex string
HexStringEqual(a, b) ==
    IF ~IsHexString(a) \/ ~IsHexString(b) THEN "throw"
    ELSE IF ToLowerCase(a) = ToLowerCase(b) THEN "true" ELSE "false"

\* findAccount(dump, address): the index of the account found, 0 when
\* none is found, -1 when the comparison throws before one is found
RECURSIVE FindAccountFrom(_, _, _)
FindAccountFrom(dump, address, i) ==
    IF i > Len(dump) THEN 0
    ELSE LET eq == HexStringEqual(dump[i].address, address)
         IN  IF eq = "throw" THEN -1
             ELSE IF eq = "true" THEN i
             ELSE FindAccountFrom(dump, address, i + 1)
FindAccount(dump, address) == FindAccountFrom(dump, address, 1)

(***************************************************************************)
(* handlers.ts: the other handlers.                                        *)
(***************************************************************************)
AccountTypes ==
    {"EOA", "PRECOMPILE", "PREDEPLOY_DEAD", "PREDEPLOY_WIPE", "PREDEPLOY_NO_WIPE",
     "PREDEPLOY_ETH", "PREDEPLOY_WETH", "UNISWAP_V3_FACTORY", "UNISWAP_V3_NFPM",
     "UNISWAP_V3_POOL", "UNISWAP_V3_LIB", "UNISWAP_V3_OTHER", "UNVERIFIED", "VERIFIED"}

\* ethereumjs-util: the hash of empty code and the root of the empty trie
KECCAK256_NULL_S == <<"c5d2460186f7233c927e7db2dcc703c0e500b653ca82273b7bfad8045d85a470">>
KECCAK256_RLP_S == <<"56e81f171bcc55a6ff8345e692c0f86e5b48e01b996cadc001622fb5e363b421">>

\* constants.ts is not part of the sources: the legacy native-asset account
OLD_ETH_ADDRESS == <<"0", "x", "4", "2">> \o Zeros(37) \o <<"6">>

\* the record with the one property key: value
Prop(key, value) == [k \in {key} |-> value]
Without(obj, key) == [k \in (DOMAIN obj) \ {key} |-> obj[k]]
\* { ...obj, key: from[field] }, where an undefined value is no property
Assign(obj, key, from, field) ==
    IF Has(from, field) THEN Spread(obj, Prop(key, from[field])) ELSE Without(obj, key)

\* a mutant of HandleEOA: the account is passed through with new hashes
HandleEOAKeepsCode(account) ==
    Spread(account, [codeHash |-> KECCAK256_NULL_S, root |-> KECCAK256_RLP_S])

\* handlers[AccountType.EOA]
HandleEOA(account) ==
    [address |-> account.address, nonce |-> account.nonce, balance |-> account.balance,
     codeHash |-> KECCAK256_NULL_S, root |-> KECCAK256_RLP_S]

\* handlers[PREDEPLOY_DEAD], [UNISWAP_V3_LIB], [UNVERIFIED]: delete the account
HandleDeleted(account) == ReturnUndefined

\* { ...account, code: genesisAccount.code, codeHash: genesisAccount.codeHash }
WithGenesisCode(account, genesisAccount) ==
    Assign(Assign(account, "code", genesisAccount, "code"),
           "codeHash", genesisAccount, "codeHash")

\* obj.storage, an absent storage spreading as no properties
StorageOf(obj) == IF Has(obj, "storage") THEN obj.storage ELSE EmptyObject

\* handlers[AccountType.PREDEPLOY_WIPE]
HandleWipe(account, data) ==
    LET g == FindAccount(data.genesis, account.address)
    IN  IF g = -1 THEN Throw(Error(<<Lit("not a hex string: ")>>))
        ELSE IF g = 0 THEN Throw(TypeError)
        ELSE Return(Assign(WithGenesisCode(account, data.genesis[g]),
                           "storage", data.genesis[g], "storage"))

\* a mutant of HandleNoWipe: the legacy storage overrides the genesis storage
HandleNoWipeLegacyWins(account, data) ==
    LET g == FindAccount(data.genesis, account.address)
    IN  IF g = -1 THEN Throw(Error(<<Lit("not a hex string: ")>>))
        ELSE IF g = 0 THEN Throw(TypeError)
        ELSE Return(Spread(WithGenesisCode(account, data.genesis[g]),
                 [storage |-> Spread(StorageOf(data.genesis[g]), StorageOf(account))]))

\* handlers[AccountType.PREDEPLOY_NO_WIPE]
HandleNoWipe(account, data) ==
    LET g == FindAccount(data.genesis, account.address)
    IN  IF g = -1 THEN Throw(Error(<<Lit("not a hex string: ")>>))
        ELSE IF g = 0 THEN Throw(TypeError)
        ELSE Return(Spread(WithGenesisCode(account, data.genesis[g]),
                 [storage |-> Spread(StorageOf(account), StorageOf(data.genesis[g]))]))

\* handlers[AccountType.PREDEPLOY_ETH]
HandleEth(account, data) ==
    LET g == FindAccount(data.genesis, account.address)
        o == FindAccount(data.dump, OLD_ETH_ADDRESS)
    IN  IF g = -1 \/ o = -1 THEN Throw(Error(<<Lit("not a hex string: ")>>))
        ELSE IF g = 0 \/ o = 0 THEN Throw(TypeError)
        ELSE Return(Spread(WithGenesisCode(account, data.genesis[g]),
                 [storage |-> Spread(StorageOf(data.dump[o]), StorageOf(data.genesis[g]))]))

\* handlers[PREDEPLOY_WETH], [UNISWAP_V3_FACTORY], [UNISWAP_V3_NFPM]
HandleNotImplemented == Throw(Error(<<Lit("Not implemented")>>))

\* provider.getCode(address): the code the endpoint answers with
GetCode(rpc, provider, address) == rpc[provider][address]

\* a mutant of HandlePool: the code is fetched from the legacy chain
HandlePoolFromLegacy(account, data, rpc) ==
    LET p == FirstIndex({i \in 1..Len(data.pools) :
                            data.pools[i].oldAddress = account.address})
    IN  IF p = 0 THEN [completion |-> Throw(TypeError), rpc |-> <<>>]
        ELSE LET newAddress == data.pools[p].newAddress
                 poolCode == GetCode(rpc, "l2Provider", newAddress)
             IN  [completion |->
                     Return(Spread(account, [address |-> newAddress, code |-> poolCode,
                                             codeHash |-> Keccak256(poolCode)])),
                  rpc |-> <<[provider |-> "l2Provider", address |-> newAddress]>>]

\* handlers[AccountType.UNISWAP_V3_POOL]
HandlePool(account, data, rpc) ==
    LET p == FirstIndex({i \in 1..Len(data.pools) :
                            data.pools[i].oldAddress = account.address})
    IN  IF p = 0 THEN [completion |-> Throw(TypeError), rpc |-> <<>>]
        ELSE LET newAddress == data.pools[p].newAddress
                 poolCode == GetCode(rpc, "l1TestnetProvider", newAddress)
             IN  [completion |->
                     Return(Spread(account, [address |-> newAddress, code |-> poolCode,
                                             codeHash |-> Keccak256(poolCode)])),
                  rpc |-> <<[provider |-> "l1TestnetProvider", address |-> newAddress]>>]

\* handlers[AccountType.UNISWAP_V3_OTHER]
HandleOther(account, data, rpc) ==
    LET code == GetCode(rpc, "l1MainnetProvider", account.address)
    IN  [completion |-> Return(Spread(account, [code |-> code, codeHash |-> Keccak256(code)])),
         rpc |-> <<[provider |-> "l1MainnetProvider", address |-> account.address]>>]

\* handlers[accountType](account, data): the completion of the call and the
\* getCode requests it issued; env holds the answers of the compiler
\* sessions and of the RPC endpoints
Handler(accountType, account, data, env) ==
    LET pure(c) == [completion |-> c, rpc |-> <<>>]
    IN  CASE accountType = "EOA" -> pure(Return(HandleEOA(account)))
          [] accountType = "PRECOMPILE" -> pure(Return(account))
          [] accountType \in {"PREDEPLOY_DEAD", "UNISWAP_V3_LIB", "UNVERIFIED"} ->
                pure(HandleDeleted(account))
          [] accountType = "PREDEPLOY_WIPE" -> pure(HandleWipe(account, data))
          [] accountType = "PREDEPLOY_NO_WIPE" -> pure(HandleNoWipe(account, data))
          [] accountType = "PREDEPLOY_ETH" -> pure(HandleEth(account, data))
          [] accountType \in {"PREDEPLOY_WETH", "UNISWAP_V3_FACTORY", "UNISWAP_V3_NFPM"} ->
                pure(HandleNotImplemented)
          [] accountType = "UNISWAP_V3_POOL" -> HandlePool(account, data, env.rpc)
          [] accountType = "UNISWAP_V3_OTHER" -> HandleOther(account, data, env.rpc)
          [] accountType = "VERIFIED" ->
                pure(VerifiedHandler(account, data, env.compiler).completion)

(***************************************************************************)
(* surgery.ts: the loop of main.                                           *)
(***************************************************************************)
\* classifiers.ts is not part of the sources: classify is a function of the
\* account and the reference data, here the variant recorded for the address
Classify(account, data) == data.variants[account.address]

\* a mutant of Collected: nothing is pushed
CollectedNothing(output, completion) == output

\* lines 280-282: the result is pushed unless the handler returned undefined
Collected(output, completion) ==
    IF completion.kind = "undefined" THEN output ELSE Append(output, completion.account)

(***************************************************************************)
(* JSON texts.  A text is a sequence of tokens: the punctuation characters *)
(* { } : , and multi-character tokens, which are strings, numbers or words *)
(* that JSON does not know.  A parsed object is a function from property   *)
(* names to values; a parsed string or number is its token.                *)
(***************************************************************************)
P(c) == [p |-> c]               \* one of the characters { } : ,
Str(s) == [str |-> s]           \* a string in double quotes
Num(n) == [num |-> n]           \* a number
Word(w) == [word |-> w]         \* anything else, Solidity source for example
Broken == [broken |-> TRUE]     \* a multi-character token cut by a slice

IsP(tok, c) == Has(tok, "p") /\ tok.p = c
IsScalar(tok) == Has(tok, "str") \/ Has(tok, "num")

ParseFailed == [ok |-> FALSE]

\* JSON.parse of a value at the head of the tokens, and of the members of
\* an object after its opening brace (or after a comma, when ~first)
RECURSIVE ParseValue(_)
RECURSIVE ParseMembers(_, _, _)
ParseValue(toks) ==
    IF toks = <<>> THEN ParseFailed
    ELSE IF IsP(Head(toks), "{") THEN ParseMembers(Tail(toks), EmptyObject, TRUE)
    ELSE IF IsScalar(Head(toks)) THEN [ok |-> TRUE, value |-> Head(toks), rest |-> Tail(toks)]
    ELSE ParseFailed

ParseMembers(toks, obj, first) ==
    IF toks = <<>> THEN ParseFailed
    ELSE IF first /\ IsP(Head(toks), "}")
    THEN [ok |-> TRUE, value |-> obj, rest |-> Tail(toks)]
    ELSE IF Len(toks) < 3 \/ ~Has(toks[1], "str") \/ ~IsP(toks[2], ":") THEN ParseFailed
    ELSE LET v == ParseValue(SubSeq(toks, 3, Len(toks)))
         IN  IF ~v.ok \/ v.rest = <<>> THEN ParseFailed
             ELSE LET next == Spread(obj, Prop(toks[1].str, v.value))
                  IN  IF IsP(Head(v.rest), "}")
                      THEN [ok |-> TRUE, value |-> next, rest |-> Tail(v.rest)]
                      ELSE IF IsP(Head(v.rest), ",")
                      THEN ParseMembers(Tail(v.rest), next, FALSE)
                      ELSE ParseFailed

\* JSON.parse(text): ok with the value, or not ok (a SyntaxError)
ParseJSON(text) ==
    LET r == ParseValue(text)
    IN  IF r.ok /\ r.rest = <<>> THEN [ok |-> TRUE, value |-> r.value] ELSE ParseFailed

\* a parsed value is an object (and not a string or a number)
IsObject(v) == ~IsScalar(v)

(***************************************************************************)
(* utils.ts: readDumpFile.                                                 *)
(***************************************************************************)
Undefined == [undefined |-> TRUE]

\* value.name of a parsed value: undefined when it has no such property
Get(value, name) ==
    IF IsObject(value) /\ Has(value, name) THEN value[name] ELSE Undefined

\* the property name a value is converted to when it is used as a key
PropertyKey(value) ==
    IF Has(value, "str") THEN value.str ELSE "undefined"

\* a mutant of StoredRecord: the key field is kept
StoredRecordWithKey(data) == Without(data, "address")

\* lines 166-167: delete data.address; delete data.key
StoredRecord(data) ==
    IF IsObject(data) THEN Without(Without(data, "address"), "key") ELSE data

\* lines 161-169: the body of the data handler after JSON.parse
DataHandler(dump, isFirstRow, data) ==
    IF isFirstRow
    THEN [dump |-> [dump EXCEPT !.root = Get(data, "root")], isFirstRow |-> FALSE]
    ELSE [dump |-> [dump EXCEPT !.accounts =
                        Spread(dump.accounts,
                               Prop(PropertyKey(Get(data, "address")), StoredRecord(data)))],
          isFirstRow |-> isFirstRow]

(***************************************************************************)
(* utils.ts: checkStateDumpRoot.  The dump's accounts are the entries of   *)
(* dump.accounts in the order Object.entries lists them.                   *)
(***************************************************************************)
PrecompilePrefix == <<"0", "x">> \o Zeros(38)

\* a mutant of IsPrecompileAddress: a prefix of 36 zeros
IsPrecompileAddressShort(address) == StartsWith(address, <<"0", "x">> \o Zeros(36))

\* line 217
IsPrecompileAddress(address) == StartsWith(address, PrecompilePrefix)

IsLowerCase(s) == ToLowerCase(s) = s

\* the assertions on one entry, in order: "ok" or the one that fails first
CheckAccount(address, account) ==
    IF ~IsLowerCase(address) THEN "upper case character in address"
    ELSE IF ~Has(account.nonce, "num") THEN "nonce is not a number"
    ELSE IF ~IsLowerCase(account.codeHash) THEN "upper case character in codeHash"
    ELSE IF ~IsLowerCase(account.root) THEN "upper case character in root"
    ELSE IF Has(account, "code") /\ ~IsLowerCase(account.code)
    THEN "upper case character in code"
    ELSE IF ~IsPrecompileAddress(address) /\ account.balance # <<"0">>
    THEN "non-zero balance"
    ELSE IF Has(account, "storage")
            /\ \E k \in DOMAIN account.storage : ~IsLowerCase(k)
    THEN "upper case character in storage key"
    ELSE IF Has(account, "storage")
            /\ \E k \in DOMAIN account.storage : ~IsLowerCase(account.storage[k])
    THEN "upper case character in storage value"
    ELSE "ok"

\* checkStateDumpRoot(dump): "ok", or the assertion the first bad entry fails
RECURSIVE CheckEntriesFrom(_, _)
CheckEntriesFrom(entries, i) ==
    IF i > Len(entries) THEN "ok"
    ELSE LET r == CheckAccount(entries[i].address, entries[i].account)
         IN  IF r # "ok" THEN r ELSE CheckEntriesFrom(entries, i + 1)
CheckStateDumpRoot(dump) == CheckEntriesFrom(dump.accounts, 1)

(***************************************************************************)
(* utils.ts: solcInput.                                                    *)
(***************************************************************************)
DecimalDigits == <<"0", "1", "2", "3", "4", "5", "6", "7", "8", "9">>
DigitValue(c) == (CHOOSE i \in 1..10 : DecimalDigits[i] = c) - 1
IsDigit(c) == \E i \in 1..10 : DecimalDigits[i] = c

\* parseInt(s, 10): the value of the leading decimal digits, NaN without any
RECURSIVE ParseDigits(_, _, _)
ParseDigits(s, i, acc) ==
    IF i > Len(s) \/ ~IsDigit(s[i]) THEN acc
    ELSE ParseDigits(s, i + 1, acc * 10 + DigitValue(s[i]))
ParseInt(s) ==
    IF s = <<>> \/ ~IsDigit(s[1]) THEN [nan |-> TRUE] ELSE Num(ParseDigits(s, 1, 0))

\* sourceCode.substr(0, 2) === '{{'
StartsWithBraces(text) ==
    Len(text) >= 2 /\ IsP(text[1], "{") /\ IsP(text[2], "{")

\* a mutant of SliceOuter: only the leading brace is trimmed
SliceOuterLeading(text) == Tail(text)

\* sourceCode.slice(1, -1) of a text that starts with a brace: the first
\* and the last character go; a longer last token loses its last character
SliceOuter(text) ==
    IF Len(text) < 2 THEN <<>>
    ELSE SubSeq(text, 2, Len(text) - 1)
         \o (IF Has(text[Len(text)], "p") THEN <<>> ELSE <<Broken>>)

\* a value is truthy: not undefined, not the empty string, not zero
Truthy(value) ==
    /\ value # Undefined
    /\ value # Str("")
    /\ value # Num(0)

\* a mutant of BaseInput: the single file holds the source without its
\* outer brackets
BaseInputUnwrapped(contract) ==
    [language |-> Str("Solidity"),
     sources |-> [file |-> [content |-> IF StartsWithBraces(contract.sourceCode)
                                        THEN SliceOuter(contract.sourceCode)
                                        ELSE contract.sourceCode]],
     settings |->
        [outputSelection |-> Prop("*", Prop("*", <<Str("*")>>)),
         optimizer |-> [enabled |-> (contract.optimizationUsed = "1"),
                        runs |-> ParseInt(contract.runs)]]]

\* lines 36-55: the base solc input object
BaseInput(contract) ==
    [language |-> Str("Solidity"),
     sources |-> [file |-> [content |-> contract.sourceCode]],
     settings |->
        [outputSelection |-> Prop("*", Prop("*", <<Str("*")>>)),
         optimizer |-> [enabled |-> (contract.optimizationUsed = "1"),
                        runs |-> ParseInt(contract.runs)]]]

\* solcInput(contract)
SolcInput(contract) ==
    LET input == BaseInput(contract)
        sourceCode == IF StartsWithBraces(contract.sourceCode)
                      THEN SliceOuter(contract.sourceCode)
                      ELSE contract.sourceCode
        json == ParseJSON(sourceCode)
    IN  IF ~json.ok THEN input
        ELSE IF Truthy(Get(json.value, "language")) THEN json.value
        ELSE [input EXCEPT !.sources = json.value]

(***************************************************************************)
(* Inputs of the surgery loop.                                             *)
(***************************************************************************)
Digits == <<"1", "2", "3", "4", "5", "6", "7", "8", "9">>
DumpAddress(i) == Addr(<<"d", Digits[i]>>)     \* the i-th account of the dump
PoolAddress(i) == Addr(<<"e", Digits[i]>>)     \* the new address of the pool at i

\* the i-th account: bare, or with code and storage
DumpAccounts(i) ==
    LET bare == [address |-> DumpAddress(i), nonce |-> i, balance |-> <<"0">>,
                 codeHash |-> Keccak256(<<"c", Digits[i]>>), root |-> Keccak256(<<"s">>)]
    IN  {bare,
         Spread(bare, [code |-> <<"c", Digits[i]>>,
                       storage |-> [k \in {"k1", "k2"} |-> <<"d", Digits[i]>>]])}

OldEthAccount ==
    [address |-> OLD_ETH_ADDRESS, nonce |-> 0, balance |-> <<"0">>,
     codeHash |-> Keccak256(<<"e">>), root |-> Keccak256(<<"s">>),
     code |-> <<"e">>, storage |-> [k \in {"k2", "k3"} |-> <<"e", "t">>]]

\* dumps of n accounts, with or without the legacy native-asset account
Dumps(n) ==
    LET lists == {d \in [1..n -> UNION {DumpAccounts(i) : i \in 1..n}] :
                     \A i \in 1..n : d[i] \in DumpAccounts(i)}
    IN  lists \cup {Append(d, OldEthAccount) : d \in lists}

\* the genesis dump: the first address with storage, the second without,
\* none for the others
Genesis ==
    <<[address |-> DumpAddress(1), nonce |-> 0, balance |-> <<"0">>,
       codeHash |-> Keccak256(<<"g", "1">>), root |-> Keccak256(<<"s">>),
       code |-> <<"g", "1">>, storage |-> [k \in {"k1", "k3", "k4"} |-> <<"g", "1">>]],
      [address |-> DumpAddress(2), nonce |-> 0, balance |-> <<"0">>,
       codeHash |-> Keccak256(<<"g", "2">>), root |-> Keccak256(<<"s">>),
       code |-> <<"g", "2">>]>>

Pools == <<[oldAddress |-> DumpAddress(1), newAddress |-> PoolAddress(1)],
           [oldAddress |-> DumpAddress(2), newAddress |-> PoolAddress(2)]>>

Providers == {"l1TestnetProvider", "l1MainnetProvider", "l2Provider"}

\* the answers of the compiler sessions and of the RPC endpoints: every
\* endpoint answers with code of its own
SurgeryEnv ==
    [compiler |-> Compiler(OutputWith("file", ArtifactNoRefs(NewObject(2))),
                           OutputWith("file", ArtifactNoRefs(OvmObject(2)))),
     rpc |-> [p \in Providers |->
                [a \in {DumpAddress(i) : i \in 1..(MaxDump + 1)}
                       \cup {PoolAddress(i) : i \in 1..(MaxDump + 1)}
                       \cup {OLD_ETH_ADDRESS} |-> <<p, a[41], a[42]>>]]]

SurgeryData(dump, variants) ==
    [dump |-> dump, genesis |-> Genesis, pools |-> Pools,
     etherscanDump |-> <<EtherscanRecord(DumpAddress(1), "v0.5.16")>>,
     variants |-> variants]

(***************************************************************************)
(* The surgery loop.                                                       *)
(***************************************************************************)
SurgeryIdle ==
    /\ sPc = "idle"
    /\ sDump = <<>>
    /\ sData = <<>>
    /\ sIndex = 0
    /\ sOutput = <<>>
    /\ sRpc = <<>>

\* main up to line 275: the data sources are loaded and the output is empty
SurgeryStart ==
    /\ sPc = "loop"
    /\ \E n \in 0..MaxDump : \E dump \in Dumps(n) :
         \E variants \in [{dump[i].address : i \in 1..Len(dump)} -> AccountTypes] :
            /\ (OLD_ETH_ADDRESS \in DOMAIN variants
                    => variants[OLD_ETH_ADDRESS] = "PREDEPLOY_DEAD")
            /\ sDump = dump
            /\ sData = SurgeryData(dump, variants)
    /\ sIndex = 0
    /\ sOutput = <<>>
    /\ sRpc = <<>>

\* lines 276-283: one iteration of the loop
SurgeryStep ==
    /\ sPc = "loop"
    /\ sIndex < Len(sDump)
    /\ LET account == sDump[sIndex + 1]
           accountType == Classify(account, sData)
           r == Handler(accountType, account, sData, SurgeryEnv)
       IN  /\ sRpc' = sRpc \o r.rpc
           /\ IF r.completion.kind = "throw"
              THEN /\ sPc' = "failed"
                   /\ UNCHANGED <<sIndex, sOutput>>
              ELSE /\ sOutput' = Collected(sOutput, r.completion)
                   /\ sIndex' = sIndex + 1
                   /\ sPc' = "loop"
    /\ UNCHANGED <<sDump, sData>>
    /\ UNCHANGED <<verifiedVars, readerVars, checkVars, inputVars, driverVars>>

\* the loop has run over every account
SurgeryEnd ==
    /\ sPc = "loop"
    /\ sIndex = Len(sDump)
    /\ sPc' = "done"
    /\ UNCHANGED <<sDump, sData, sIndex, sOutput, sRpc>>
    /\ UNCHANGED <<verifiedVars, readerVars, checkVars, inputVars, driverVars>>

(***************************************************************************)
(* Inputs of readDumpFile: the lines of a dump file.                       *)
(***************************************************************************)
\* the text of an object with the given members, each <<name, value tokens>>
RECURSIVE MembersText(_)
MembersText(members) ==
    IF members = <<>> THEN <<>>
    ELSE <<Str(members[1][1]), P(":")>> \o members[1][2]
         \o (IF Len(members) = 1 THEN <<>> ELSE <<P(",")>> \o MembersText(Tail(members)))
ObjectText(members) == <<P("{")>> \o MembersText(members) \o <<P("}")>>

RootLine == ObjectText(<< <<"root", <<Str("0xr00t")>> >> >>)

\* an account line, with or without the transport-only key field
AccountLines ==
    {ObjectText(<< <<"address", <<Str(a)>> >>, <<"nonce", <<Num(n)>> >>,
                   <<"balance", <<Str("0")>> >> >>) :
        a \in {"0xd1", "0xd2"}, n \in {1, 2}}
    \cup
    {ObjectText(<< <<"nonce", <<Num(n)>> >>, <<"key", <<Str("0xkey")>> >>,
                   <<"address", <<Str(a)>> >>,
                   <<"storage", ObjectText(<< <<"0xk1", <<Str("0xv1")>> >> >>)>> >>) :
        a \in {"0xd1", "0xd2"}, n \in {1, 2}}

\* lines that are not valid JSON: an object that is not closed, and text
InvalidLines ==
    {<<P("{"), Str("address"), P(":"), Str("0xd1")>>,
     <<Word("garbage")>>}

DumpLines == {RootLine} \cup AccountLines \cup InvalidLines

(***************************************************************************)
(* readDumpFile: the stream's events.                                      *)
(***************************************************************************)
ReaderIdle ==
    /\ rLines = <<>>
    /\ rPos = 0
    /\ rIsFirstRow = TRUE
    /\ rDump = <<>>
    /\ rStream = "idle"
    /\ rPromise = [state |-> "none"]

\* lines 150-158: readDumpFile has returned its promise, the stream is open
ReaderStart ==
    /\ \E n \in 0..MaxLines : rLines \in [1..n -> DumpLines]
    /\ rPos = 0
    /\ rIsFirstRow = TRUE
    /\ rDump = [root |-> Str(""), accounts |-> EmptyObject]
    /\ rStream = "flowing"
    /\ rPromise = [state |-> "pending"]

\* lines 159-170: the stream emits the next line.  An exception of
\* JSON.parse leaves the listener uncaught: nothing settles the promise
\* and the stream delivers nothing more
DataEvent ==
    /\ rStream = "flowing"
    /\ rPos < Len(rLines)
    /\ rPos' = rPos + 1
    /\ LET data == ParseJSON(rLines[rPos + 1])
       IN  IF ~data.ok
           THEN /\ rStream' = "crashed"
                /\ UNCHANGED <<rIsFirstRow, rDump>>
           ELSE LET r == DataHandler(rDump, rIsFirstRow, data.value)
                IN  /\ rDump' = r.dump
                    /\ rIsFirstRow' = r.isFirstRow
                    /\ rStream' = rStream
    /\ UNCHANGED <<rLines, rPromise>>
    /\ UNCHANGED <<verifiedVars, surgeryVars, checkVars, inputVars, driverVars>>

\* lines 172-174: the stream ends after its last line
EndEvent ==
    /\ rStream = "flowing"
    /\ rPos = Len(rLines)
    /\ rStream' = "ended"
    /\ rPromise' = [state |-> "resolved", value |-> rDump]
    /\ UNCHANGED <<rLines, rPos, rIsFirstRow, rDump>>
    /\ UNCHANGED <<verifiedVars, surgeryVars, checkVars, inputVars, driverVars>>

(***************************************************************************)
(* Inputs of checkStateDumpRoot.                                           *)
(***************************************************************************)
LowerHash == <<"0", "x", "a", "1">>
UpperHash == <<"0", "x", "A", "1">>

\* lower case, upper case, precompile, and one zero short of a precompile
CheckedAddresses ==
    <<Addr(<<"d", "1">>), Addr(<<"D", "1">>), Addr(<<"0", "4">>), Addr(<<"1", "0", "4">>)>>

GoodEntry(address) ==
    [address |-> address,
     account |-> [nonce |-> Num(1), balance |-> <<"0">>, codeHash |-> LowerHash,
                  root |-> LowerHash]]

\* an entry, sound but for its address, and the entries with one more
\* field added or changed
EntriesAt(address) ==
    LET good == GoodEntry(address)
        with(fields) == [good EXCEPT !.account = Spread(good.account, fields)]
    IN  {good,
         with([code |-> LowerHash,
               storage |-> [k \in {LowerHash} |-> LowerHash]]),
         with([nonce |-> Str("1")]),
         with([codeHash |-> UpperHash]),
         with([root |-> UpperHash]),
         with([code |-> UpperHash]),
         with([balance |-> <<"5">>]),
         with([storage |-> [k \in {UpperHash} |-> LowerHash]]),
         with([storage |-> [k \in {LowerHash} |-> UpperHash]]),
         with([storage |-> [k \in {LowerHash, <<"0", "x", "b">>} |->
                               IF k = LowerHash THEN LowerHash ELSE UpperHash]])}

\* dumps of n entries with different addresses
CheckedDumps(n) ==
    {d \in [1..n -> UNION {EntriesAt(CheckedAddresses[i]) : i \in 1..Len(CheckedAddresses)}] :
        \A i, j \in 1..n : i # j => d[i].address # d[j].address}

(***************************************************************************)
(* checkStateDumpRoot: the call.                                           *)
(***************************************************************************)
CheckIdle ==
    /\ cPhase = "idle"
    /\ cDump = <<>>
    /\ cAfter = <<>>
    /\ cResult = "none"

\* checkStateDumpRoot(dump); the function writes to nothing
CheckDump ==
    /\ cPhase = "idle"
    /\ \E n \in 0..MaxEntries : \E entries \in CheckedDumps(n) :
         LET dump == [root |-> LowerHash, accounts |-> entries]
         IN  /\ cResult' = CheckStateDumpRoot(dump)
             /\ cDump' = dump
             /\ cAfter' = dump
    /\ cPhase' = "called"
    /\ UNCHANGED <<verifiedVars, surgeryVars, readerVars, inputVars, driverVars>>

(***************************************************************************)
(* Inputs of solcInput.                                                    *)
(***************************************************************************)
SourcesText == ObjectText(<< <<"a.sol", ObjectText(<< <<"content", <<Str("contract A")>> >> >>)>> >>)
TwoSourcesText ==
    ObjectText(<< <<"a.sol", ObjectText(<< <<"content", <<Str("contract A")>> >> >>)>>,
                  <<"b.sol", ObjectText(<< <<"content", <<Str("contract B")>> >> >>)>> >>)
SettingsText ==
    ObjectText(<< <<"optimizer",
                    ObjectText(<< <<"runs", <<Num(999)>> >> >>)>> >>)

\* JSON texts: source maps, and full compiler inputs with a language field
JsonTexts ==
    {ObjectText(<<>>), SourcesText, TwoSourcesText,
     ObjectText(<< <<"language", <<Str("Solidity")>> >>, <<"sources", SourcesText>> >>),
     ObjectText(<< <<"language", <<Str("Solidity")>> >>, <<"sources", TwoSourcesText>>,
                   <<"settings", SettingsText>> >>),
     ObjectText(<< <<"language", <<Str("Yul")>> >>, <<"sources", SourcesText>> >>),
     ObjectText(<< <<"sources", SourcesText>>, <<"settings", SettingsText>> >>)}

Wrap(text) == <<P("{")>> \o text \o <<P("}")>>

\* texts that are no JSON: Solidity, cut or unbalanced objects, a trailing
\* comma, and an object after which more text follows
OtherTexts ==
    {<<Word("contract"), Word("A"), P("{"), P("}")>>,
     <<P("{"), P("{"), Word("contract")>>,
     <<P("{"), P("{"), P("}")>>,
     <<P("{"), Str("a.sol"), P(":")>>,
     <<P("{"), Str("a.sol"), P(":"), Str("x"), P(","), P("}")>>,
     SourcesText \o <<Word("x")>>,
     <<>>}

SourceTexts == JsonTexts \cup {Wrap(t) : t \in JsonTexts} \cup OtherTexts

ResolvedRecords ==
    {[contractAddress |-> VerifiedAddress, contractName |-> "Token",
      compilerVersion |-> "v0.5.16", sourceCode |-> t, optimizationUsed |-> o, runs |-> r] :
        t \in SourceTexts, o \in {"0", "1"},
        r \in {<<"2", "0", "0">>, <<"0">>, <<"1", "e", "3">>}}

(***************************************************************************)
(* solcInput: the calls.                                                   *)
(***************************************************************************)
InputIdle ==
    /\ iPhase = "idle"
    /\ iContract = <<>>
    /\ iPlain = <<>>
    /\ iWrapped = <<>>

\* solcInput of a record, and of the record that differs from it only in
\* that its source text is wrapped in one more pair of braces
ResolvePair ==
    /\ iPhase = "idle"
    /\ \E contract \in ResolvedRecords :
         /\ iContract' = contract
         /\ iPlain' = SolcInput(contract)
         /\ iWrapped' = SolcInput([contract EXCEPT !.sourceCode = Wrap(contract.sourceCode)])
    /\ iPhase' = "called"
    /\ UNCHANGED <<verifiedVars, surgeryVars, readerVars, checkVars, driverVars>>

(***************************************************************************)
(* l2output driver: the answers of its collaborators.  A chain is what the *)
(* oracle contract and the two endpoints answer at one moment: latest, the *)
(* timestamp of the latest committed L2 block; interval, the submission    *)
(* interval; rate, the L2 blocks per unit of time; l1Time, the timestamp   *)
(* of the latest L1 block; tipSupported, whether the L1 backend answers    *)
(* eth_maxPriorityFeePerGas; failing, whether it rejects a transaction     *)
(* for another reason.                                                     *)
(***************************************************************************)
Nil == "nil"
MaxPriorityFeePerGasNotFound == "Method eth_maxPriorityFeePerGas not found"
FallbackGasTipCap == "FallbackGasTipCap"

\* sroContract.LatestBlockTimestamp, NextTimestamp, ComputeL2BlockNumber
LatestBlockTimestamp(chain) == chain.latest
NextTimestamp(chain) == chain.latest + chain.interval
ComputeL2BlockNumber(chain, timestamp) == timestamp * chain.rate

\* L2Client.HeaderByNumber(n).Root
CheckpointRoot(n) == <<"root", n>>

\* a call that returned an error
Failed(err) == [err |-> err]

\* a mutant of IsMaxPriorityFeePerGasNotFoundError: every error counts
IsAnyError(err) == err # Nil

\* drivers.IsMaxPriorityFeePerGasNotFoundError(err)
IsMaxPriorityFeePerGasNotFoundError(err) == err = MaxPriorityFeePerGasNotFound

\* the bound contract transacting with opts and call data: the tip is asked
\* of the backend unless opts has one, and the signed transaction is sent
\* unless opts.NoSend
Transact(chain, opts, data) ==
    LET attempt == [nonce |-> opts.nonce, noSend |-> opts.noSend,
                    gasTipCap |-> opts.gasTipCap, data |-> data]
    IN  IF opts.gasTipCap = Nil /\ ~chain.tipSupported
        THEN Spread(attempt, [err |-> MaxPriorityFeePerGasNotFound])
        ELSE IF chain.failing
        THEN Spread(attempt, [err |-> "transaction rejected"])
        ELSE Spread(attempt,
                [err |-> Nil,
                 tx |-> [nonce |-> opts.nonce, data |-> data,
                         gasTipCap |-> IF opts.gasTipCap = Nil THEN "suggested"
                                       ELSE opts.gasTipCap]])

\* lines 326-349 and 369-388: the attempt, and the second attempt with the
\* fallback tip when the first failed for want of eth_maxPriorityFeePerGas
TransactWithFallback(chain, opts, data) ==
    LET first == Transact(chain, opts, data)
    IN  IF first.err = Nil THEN [kind |-> "tx", tx |-> first.tx, attempts |-> <<first>>]
        ELSE IF IsMaxPriorityFeePerGasNotFoundError(first.err)
        THEN LET second == Transact(chain, [opts EXCEPT !.gasTipCap = FallbackGasTipCap], data)
             IN  IF second.err = Nil
                 THEN [kind |-> "tx", tx |-> second.tx, attempts |-> <<first, second>>]
                 ELSE [kind |-> "err", err |-> second.err, attempts |-> <<first, second>>]
        ELSE [kind |-> "err", err |-> first.err, attempts |-> <<first>>]

\* the transactions the attempts sent
RECURSIVE Sent(_)
Sent(attempts) ==
    IF attempts = <<>> THEN <<>>
    ELSE (IF attempts[1].err = Nil /\ ~attempts[1].noSend THEN <<attempts[1].tx>> ELSE <<>>)
         \o Sent(Tail(attempts))

\* Driver.GetBatchBlockRange; fault is the call that fails, 0 for none
GetBatchBlockRange(chain, fault) ==
    IF fault = 1 THEN Failed("LatestBlockTimestamp")
    ELSE IF fault = 2 THEN Failed("ComputeL2BlockNumber")
    ELSE
    LET sroTimestamp == LatestBlockTimestamp(chain)
        start == ComputeL2BlockNumber(chain, sroTimestamp) + 1
    IN  IF fault = 3 THEN Failed("NextTimestamp")
        ELSE IF fault = 4 THEN Failed("HeaderByNumber")
        ELSE
        LET nextTimestamp == NextTimestamp(chain)
            currentTimestamp == chain.l1Time
        IN  IF currentTimestamp > nextTimestamp
            THEN [err |-> Nil, start |-> start, end |-> start]
            ELSE IF fault = 5 THEN Failed("ComputeL2BlockNumber")
            ELSE [err |-> Nil, start |-> start,
                  end |-> ComputeL2BlockNumber(chain, nextTimestamp) + 1]

\* new(big.Int).Sub(start, end).Uint64(): the magnitude of the difference
NumElements(start, end) == IF start >= end THEN start - end ELSE end - start

\* Driver.CraftBatchTx; fault is the call that fails, 0 for none
CraftBatchTx(chain, start, end, nonce, fault) ==
    LET nextCheckpointBlock == end - 1
        none == [attempts |-> <<>>]
    IN  IF fault = 1 THEN Spread([kind |-> "err", err |-> "HeaderByNumber"], none)
        ELSE
        LET observed == [observed |-> NumElements(start, end), attempts |-> <<>>]
        IN  IF fault = 2 THEN Spread([kind |-> "err", err |-> "NextTimestamp"], observed)
            ELSE IF fault = 3
            THEN Spread([kind |-> "err", err |-> "ComputeL2BlockNumber"], observed)
            ELSE
            LET timestamp == NextTimestamp(chain)
                expCheckpointBlock == ComputeL2BlockNumber(chain, timestamp)
            IN  IF nextCheckpointBlock # expCheckpointBlock
                THEN Spread([kind |-> "panic", want |-> nextCheckpointBlock,
                             found |-> expCheckpointBlock], observed)
                ELSE IF fault = 4
                THEN Spread([kind |-> "err", err |-> "NewKeyedTransactorWithChainID"],
                            observed)
                ELSE Spread(observed,
                        TransactWithFallback(chain,
                            [nonce |-> nonce, noSend |-> TRUE, gasTipCap |-> Nil],
                            [root |-> CheckpointRoot(nextCheckpointBlock),
                             timestamp |-> timestamp]))

\* Driver.SubmitBatchTx; fault is the call that fails, 0 for none
SubmitBatchTx(chain, tx, fault) ==
    IF fault = 1
    THEN [kind |-> "err", err |-> "NewKeyedTransactorWithChainID", attempts |-> <<>>]
    ELSE TransactWithFallback(chain,
            [nonce |-> tx.nonce, noSend |-> FALSE, gasTipCap |-> Nil], tx.data)

(***************************************************************************)
(* The driver: its calls, and what happens around them.                    *)
(***************************************************************************)
Chains ==
    [latest : {1}, interval : {1, 2}, rate : {1, 2}, l1Time : 0..MaxTime,
     tipSupported : BOOLEAN, failing : BOOLEAN]

DriverOff ==
    /\ dPc = "off"
    /\ dChain = <<>>
    /\ dRange = <<>>
    /\ dCraft = <<>>
    /\ dSubmit = <<>>
    /\ dPublished = <<>>

\* NewDriver has returned the driver
DriverStart ==
    /\ dPc = "idle"
    /\ dChain \in Chains
    /\ dRange = <<>>
    /\ dCraft = <<>>
    /\ dSubmit = <<>>
    /\ dPublished = <<>>

\* a new L1 block, one unit of time later
L1Block ==
    /\ dPc \in {"idle", "ranged"}
    /\ dChain.l1Time < MaxTime
    /\ dChain' = [dChain EXCEPT !.l1Time = @ + 1]
    /\ UNCHANGED <<dPc, dRange, dCraft, dSubmit, dPublished>>
    /\ UNCHANGED <<verifiedVars, surgeryVars, readerVars, checkVars, inputVars>>

\* a state root is committed to the oracle by a transaction of an earlier
\* run: the latest committed timestamp moves on by the interval
RootCommitted ==
    /\ dPc \in {"idle", "ranged"}
    /\ NextTimestamp(dChain) <= MaxTime
    /\ dChain' = [dChain EXCEPT !.latest = NextTimestamp(dChain)]
    /\ UNCHANGED <<dPc, dRange, dCraft, dSubmit, dPublished>>
    /\ UNCHANGED <<verifiedVars, surgeryVars, readerVars, checkVars, inputVars>>

DriverGetRange ==
    /\ dPc \in {"idle", "ranged"}
    /\ \E fault \in 0..5 :
         LET r == GetBatchBlockRange(dChain, fault)
         IN  /\ dRange' = [at |-> dChain, result |-> r]
             /\ dPc' = IF r.err = Nil THEN "ranged" ELSE "idle"
    /\ UNCHANGED <<dChain, dCraft, dSubmit, dPublished>>
    /\ UNCHANGED <<verifiedVars, surgeryVars, readerVars, checkVars, inputVars>>

DriverCraft ==
    /\ dPc = "ranged"
    /\ \E nonce \in {0, 7}, fault \in 0..4 :
         LET r == CraftBatchTx(dChain, dRange.result.start, dRange.result.end, nonce, fault)
         IN  /\ dCraft' = [at |-> dChain, start |-> dRange.result.start,
                           end |-> dRange.result.end, nonce |-> nonce, result |-> r]
             /\ dPublished' = dPublished \o Sent(r.attempts)
             /\ dPc' = CASE r.kind = "tx" -> "crafted"
                         [] r.kind = "err" -> "failed"
                         [] r.kind = "panic" -> "panicked"
    /\ UNCHANGED <<dChain, dRange, dSubmit>>
    /\ UNCHANGED <<verifiedVars, surgeryVars, readerVars, checkVars, inputVars>>

DriverSubmit ==
    /\ dPc = "crafted"
    /\ \E fault \in 0..1, tip \in BOOLEAN, failing \in BOOLEAN :
         LET chain == [dChain EXCEPT !.tipSupported = tip, !.failing = failing]
             r == SubmitBatchTx(chain, dCraft.result.tx, fault)
         IN  /\ dChain' = chain
             /\ dSubmit' = [at |-> chain, tx |-> dCraft.result.tx, result |-> r]
             /\ dPublished' = dPublished \o Sent(r.attempts)
             /\ dPc' = IF r.kind = "tx" THEN "submitted" ELSE "failed"
    /\ UNCHANGED <<dRange, dCraft>>
    /\ UNCHANGED <<verifiedVars, surgeryVars, readerVars, checkVars, inputVars>>

(***************************************************************************)
(* Specifications.                                                         *)
(***************************************************************************)
\* the VERIFIED handler, called once
InitVerified == VerifiedIdle /\ SurgeryIdle /\ ReaderIdle /\ CheckIdle /\ InputIdle /\ DriverOff
NextVerified == HandleVerifiedLookup \/ HandleVerifiedRelocate
SpecVerified == InitVerified /\ [][NextVerified]_vars

\* the loop of main over a dump
InitSurgery == VerifiedIdle /\ SurgeryStart /\ ReaderIdle /\ CheckIdle /\ InputIdle /\ DriverOff
NextSurgery == SurgeryStep \/ SurgeryEnd
SpecSurgery == InitSurgery /\ [][NextSurgery]_vars

\* readDumpFile on a file
InitReader == VerifiedIdle /\ SurgeryIdle /\ ReaderStart /\ CheckIdle /\ InputIdle /\ DriverOff
NextReader == DataEvent \/ EndEvent
SpecReader == InitReader /\ [][NextReader]_vars

\* checkStateDumpRoot, called once
InitCheck == VerifiedIdle /\ SurgeryIdle /\ ReaderIdle /\ CheckIdle /\ InputIdle /\ DriverOff
NextCheck == CheckDump
SpecCheck == InitCheck /\ [][NextCheck]_vars

\* solcInput, called on a record and on its wrapped twin
InitInput == VerifiedIdle /\ SurgeryIdle /\ ReaderIdle /\ CheckIdle /\ InputIdle /\ DriverOff
NextInput == ResolvePair
SpecInput == InitInput /\ [][NextInput]_vars

\* the l2output driver: range, craft, submit, while time passes
InitDriver == VerifiedIdle /\ SurgeryIdle /\ ReaderIdle /\ CheckIdle /\ InputIdle /\ DriverStart
NextDriver == L1Block \/ RootCommitted \/ DriverGetRange \/ DriverCraft \/ DriverSubmit
SpecDriver == InitDriver /\ [][NextDriver]_vars

\* every operation, each from its idle state
Init == InitVerified
Next == NextVerified \/ NextSurgery \/ NextReader \/ NextCheck \/ NextInput \/ NextDriver
Spec == Init /\ [][Next]_vars

(***************************************************************************)
(* Claims about the VERIFIED handler.                                      *)
(***************************************************************************)
Returned == vPhase = "called" /\ vResult.kind = "return"
Threw == vPhase = "called" /\ vResult.kind = "throw"

\* the archived record the call found, and the two artifacts it read
FoundRecord ==
    vInput.data.etherscanDump[
        FirstIndex({i \in 1..Len(vInput.data.etherscanDump) :
            vInput.data.etherscanDump[i].contractAddress = vInput.account.address})]
NewDeployed ==
    ContractOutput(vInput.compiler[StdSession], FoundRecord).evm.deployedBytecode
PairedDeployed ==
    ContractOutput(vInput.compiler[PairedSession], FoundRecord).evm.deployedBytecode
HasImmutables ==
    /\ Has(NewDeployed, "immutableReferences")
    /\ DOMAIN NewDeployed.immutableReferences # {}

\* the occurrences (name, position) of the new artifact
Occurrences(refs) == {<<name, i>> : name \in DOMAIN refs, i \in 1..MaxOcc} \cap
                     {o \in (DOMAIN refs) \X (1..MaxOcc) : o[2] <= Len(refs[o[1]])}
Inside(ref, object) == ref.start + ref.length <= Len(object)
Disjoint(r1, r2) ==
    r1.start + r1.length <= r2.start \/ r2.start + r2.length <= r1.start

\* the favourable case for relocation: every range lies inside its byte
\* code and no two ranges of the new artifact overlap
WellFormedRanges ==
    LET refs == NewDeployed.immutableReferences
        ovmRefs == PairedDeployed.immutableReferences
    IN  /\ \A o \in Occurrences(refs) :
              /\ Inside(refs[o[1]][o[2]], NewDeployed.object)
              /\ Inside(ovmRefs[o[1]][o[2]], PairedDeployed.object)
        /\ \A o1, o2 \in Occurrences(refs) :
              o1 # o2 => Disjoint(refs[o1[1]][o1[2]], refs[o2[1]][o2[2]])

\* C1: when the handler returns for an artifact with immutables, the output
\* code is as long as the newly compiled byte code and, for every name and
\* every occurrence i, the output code at the new artifact's i-th range is
\* the paired byte code at the paired artifact's i-th range (no earlier
\* splice is lost).  Stated for the favourable case of ranges that lie
\* inside the byte code and do not overlap.
C1_EveryOccurrenceRelocated ==
    (Returned /\ HasImmutables) =>
        LET refs == NewDeployed.immutableReferences
            ovmRefs == PairedDeployed.immutableReferences
            out == vResult.account.code
        IN  /\ Len(out) = Len(NewDeployed.object)
            /\ WellFormedRanges =>
                 \A o \in Occurrences(refs) :
                    LET ref == refs[o[1]][o[2]]
                        ovmRef == ovmRefs[o[1]][o[2]]
                    IN  Slice(out, ref.start, ref.start + ref.length)
                        = Slice(PairedDeployed.object, ovmRef.start,
                                ovmRef.start + ovmRef.length)

\* the length of pre + immutable + post, from the ranges and lengths alone
SplicedLength(ref, ovmRef, newLen, ovmLen) ==
    Min(ref.start, newLen)
    + Max(0, Min(ovmRef.start + ovmRef.length, ovmLen) - Min(ovmRef.start, ovmLen))
    + Max(0, newLen - (ref.start + ref.length))

\* C2: the handler returns an account only if, for every immutable name of
\* the new artifact, the paired artifact has an entry for the name, a paired
\* range exists at every position, corresponding ranges are equally long and
\* every splice leaves the length of the byte code unchanged.
C2_ReturnsOnlyIfSound ==
    (Returned /\ HasImmutables) =>
        /\ ContractLookup(vInput.compiler[PairedSession], FoundRecord) = "found"
        /\ Has(PairedDeployed, "immutableReferences")
        /\ LET refs == NewDeployed.immutableReferences
               ovmRefs == PairedDeployed.immutableReferences
           IN  \A name \in DOMAIN refs :
                 /\ name \in DOMAIN ovmRefs
                 /\ \A i \in 1..Len(refs[name]) :
                      /\ i <= Len(ovmRefs[name])
                      /\ refs[name][i].length = ovmRefs[name][i].length
                      /\ SplicedLength(refs[name][i], ovmRefs[name][i],
                                       Len(NewDeployed.object), Len(PairedDeployed.object))
                         = Len(NewDeployed.object)

\* C2 witness: the handler returned although a range of the new artifact
\* ends past the end of the byte code
C2_Witness ==
    /\ Returned
    /\ HasImmutables
    /\ \E o \in Occurrences(NewDeployed.immutableReferences) :
         ~Inside(NewDeployed.immutableReferences[o[1]][o[2]], NewDeployed.object)

\* C5: the caller's account record is the same after the call as before
\* it, also when the handler throws, and a returned account has the
\* address, nonce and balance of the input.
C5_VerifiedFrame ==
    vPhase = "called" =>
        /\ vCaller = vInput.account
        /\ Returned =>
             /\ vResult.account.address = vInput.account.address
             /\ vResult.account.nonce = vInput.account.nonce
             /\ vResult.account.balance = vInput.account.balance

\* C5 witness: the handler returned an account with new code, spliced
\* from an artifact with immutables
C5_Witness ==
    /\ Returned
    /\ HasImmutables
    /\ vResult.account.code # vInput.account.code
    /\ vResult.account.code # NewDeployed.object
    /\ vCaller.code = LegacyCode

\* C6: every error thrown while a VERIFIED account is processed names the
\* address of the account in its message.
C6_ErrorsNameTheAddress ==
    Threw =>
        \E i \in 1..Len(vResult.error.message) :
            /\ Has(vResult.error.message[i], "addr")
            /\ vResult.error.message[i].addr = vInput.account.address

(***************************************************************************)
(* Claims about the EOA handler and the surgery loop.                      *)
(***************************************************************************)
\* the records of the output list that carry the address
OutputsAt(address) == {j \in 1..Len(sOutput) : sOutput[j].address = address}

\* C3: for an EOA, whatever code and storage the input carries, the output
\* record has the address, nonce and balance of the input, the hash of empty
\* code as codeHash, the root of the empty trie as root, and no code and no
\* storage field.
C3_EOAStripped ==
    \A i \in 1..sIndex :
        Classify(sDump[i], sData) = "EOA" =>
            /\ Cardinality(OutputsAt(sDump[i].address)) = 1
            /\ \A j \in OutputsAt(sDump[i].address) :
                 /\ sOutput[j].address = sDump[i].address
                 /\ sOutput[j].nonce = sDump[i].nonce
                 /\ sOutput[j].balance = sDump[i].balance
                 /\ sOutput[j].codeHash = KECCAK256_NULL_S
                 /\ sOutput[j].root = KECCAK256_RLP_S
                 /\ ~Has(sOutput[j], "code")
                 /\ ~Has(sOutput[j], "storage")

\* C3 witness: an EOA that came with code and storage has been processed
C3_Witness ==
    /\ sPc = "done"
    /\ \E i \in 1..sIndex :
         /\ Classify(sDump[i], sData) = "EOA"
         /\ Has(sDump[i], "code")
         /\ Has(sDump[i], "storage")
         /\ OutputsAt(sDump[i].address) # {}

\* the records the handlers return for the first n accounts, in order
RECURSIVE ReturnedRecords(_)
ReturnedRecords(n) ==
    IF n = 0 THEN <<>>
    ELSE LET c == Handler(Classify(sDump[n], sData), sDump[n], sData, SurgeryEnv).completion
         IN  IF c.kind = "return" THEN Append(ReturnedRecords(n - 1), c.account)
             ELSE ReturnedRecords(n - 1)

DeletedVariants == {"PREDEPLOY_DEAD", "UNVERIFIED", "UNISWAP_V3_LIB"}

\* C4: the output list holds, for each account processed whose handler
\* returned a record, exactly that record, and nothing else; an account
\* classified PREDEPLOY_DEAD, UNVERIFIED or UNISWAP_V3_LIB is absent from it.
C4_OutputIsHandlerResults ==
    /\ sOutput = ReturnedRecords(sIndex)
    /\ \A i \in 1..sIndex :
         Classify(sDump[i], sData) \in DeletedVariants =>
            OutputsAt(sDump[i].address) = {}

\* C4 witness: the loop ended on a dump with a deleted account and a kept one
C4_Witness ==
    /\ sPc = "done"
    /\ Len(sOutput) >= 1
    /\ \E i \in 1..sIndex : Classify(sDump[i], sData) \in DeletedVariants

(***************************************************************************)
(* Claims about readDumpFile.                                              *)
(***************************************************************************)
AllLinesValid == \A i \in 1..Len(rLines) : ParseJSON(rLines[i]).ok
LineValue(i) == ParseJSON(rLines[i]).value
Resolved == rPromise.state = "resolved"

\* the address of a line, as the name of a property
AddressOfLine(i) == PropertyKey(Get(LineValue(i), "address"))

\* the last line after the first that carries the address
LastLineWith(address) ==
    CHOOSE i \in 2..Len(rLines) :
        /\ AddressOfLine(i) = address
        /\ \A j \in (i + 1)..Len(rLines) : AddressOfLine(j) # address

\* C7: for a file whose lines are all valid JSON, the promise resolves only
\* after the stream has ended, with the root of the first line and with one
\* account per distinct address of the later lines, keyed by the address,
\* which is the line's record without its address and key fields; the first
\* line is not stored as an account.
C7_ReaderResult ==
    (AllLinesValid /\ Resolved) =>
        /\ rStream = "ended"
        /\ rPos = Len(rLines)
        /\ Len(rLines) >= 1 => rPromise.value.root = Get(LineValue(1), "root")
        /\ DOMAIN rPromise.value.accounts
             = {AddressOfLine(i) : i \in 2..Len(rLines)}
        /\ \A a \in DOMAIN rPromise.value.accounts :
             LET line == LineValue(LastLineWith(a))
             IN  rPromise.value.accounts[a]
                   = [k \in (DOMAIN line) \ {"address", "key"} |-> line[k]]

\* C7 witness: a file of a root line and two account lines, one of them
\* with a key field, has been read
C7_Witness ==
    /\ Resolved
    /\ Len(rLines) = 3
    /\ rLines[1] = RootLine
    /\ \E i \in 2..3 : Has(LineValue(i), "key")
    /\ AddressOfLine(2) # AddressOfLine(3)

\* C8: when a line of the file is not valid JSON, the read fails: once the
\* stream delivers nothing more, the promise has been rejected.
C8_InvalidLineRejects ==
    (~AllLinesValid /\ rStream \in {"ended", "crashed"}) =>
        rPromise.state = "rejected"

(***************************************************************************)
(* Claims about checkStateDumpRoot.                                        *)
(***************************************************************************)
UpperCaseLetters ==
    {"A", "B", "C", "D", "E", "F", "G", "H", "I", "J", "K", "L", "M",
     "N", "O", "P", "Q", "R", "S", "T", "U", "V", "W", "X", "Y", "Z"}
NoUpperCase(s) == \A i \in 1..Len(s) : s[i] \notin UpperCaseLetters

\* 0x followed by 38 zero digits
InPrecompileRange(address) ==
    /\ Len(address) >= 40
    /\ address[1] = "0"
    /\ address[2] = "x"
    /\ \A i \in 3..40 : address[i] = "0"

SoundEntry(entry) ==
    /\ NoUpperCase(entry.address)
    /\ NoUpperCase(entry.account.codeHash)
    /\ NoUpperCase(entry.account.root)
    /\ Has(entry.account, "code") => NoUpperCase(entry.account.code)
    /\ Has(entry.account, "storage") =>
         \A k \in DOMAIN entry.account.storage :
            NoUpperCase(k) /\ NoUpperCase(entry.account.storage[k])
    /\ Has(entry.account.nonce, "num")
    /\ entry.account.balance = <<"0">> \/ InPrecompileRange(entry.address)

\* C9: checkStateDumpRoot completes without failure if and only if every
\* account of the dump has a lower-case address, codeHash, root, code (when
\* present) and storage keys and values, a nonce that is a number, and a
\* balance of "0" unless its address is in the precompile range; the dump
\* is the same after the call.
C9_ValidatorAcceptsExactlySound ==
    cPhase = "called" =>
        /\ (cResult = "ok") <=>
              (\A i \in 1..Len(cDump.accounts) : SoundEntry(cDump.accounts[i]))
        /\ cAfter = cDump

\* C9 witness: a dump of two accounts passed, one of them a precompile
\* with a balance
C9_Witness ==
    /\ cPhase = "called"
    /\ cResult = "ok"
    /\ Len(cDump.accounts) = 2
    /\ \E i \in 1..2 : cDump.accounts[i].account.balance # <<"0">>

(***************************************************************************)
(* Claims about solcInput.                                                 *)
(***************************************************************************)
\* C10: when the source text of a record is a JSON text and its wrapped
\* form starts with two braces, solcInput returns the same document for the
\* record and for its wrapped twin; and when the JSON has a language field,
\* that document is the parsed JSON itself, with no settings but its own.
C10_WrappedResolvesAlike ==
    (/\ iPhase = "called"
     /\ ParseJSON(iContract.sourceCode).ok
     /\ StartsWithBraces(Wrap(iContract.sourceCode))) =>
        LET json == ParseJSON(iContract.sourceCode).value
        IN  /\ iWrapped = iPlain
            /\ Has(json, "language") =>
                 /\ iPlain = json
                 /\ iWrapped = json
                 /\ Has(iPlain, "settings") = Has(json, "settings")

\* C10 witness: a JSON source with a language field and no settings has
\* been resolved, from a record that has the optimizer switched on
C10_Witness ==
    /\ iPhase = "called"
    /\ ParseJSON(iContract.sourceCode).ok
    /\ Has(ParseJSON(iContract.sourceCode).value, "language")
    /\ ~Has(ParseJSON(iContract.sourceCode).value, "settings")
    /\ iContract.optimizationUsed = "1"
    /\ iWrapped = iPlain

\* a decimal numeral, and its value read from the last digit backwards
IsDecimal(s) == s # <<>> /\ \A i \in 1..Len(s) : IsDigit(s[i])
RECURSIVE DecimalValue(_)
DecimalValue(s) ==
    IF s = <<>> THEN 0
    ELSE DigitValue(s[Len(s)]) + 10 * DecimalValue(SubSeq(s, 1, Len(s) - 1))

\* the text solcInput hands to JSON.parse does not parse
NoJsonAtAll(text) ==
    /\ ~ParseJSON(text).ok
    /\ StartsWithBraces(text) => ~ParseJSON(SliceOuter(text)).ok

\* the JSON that the text, or the text inside its outer brackets, holds
HeldJson(text) ==
    IF ParseJSON(text).ok THEN ParseJSON(text).value
    ELSE ParseJSON(SliceOuter(text)).value

\* C11: when the source text does not parse as JSON (neither as it is nor
\* without a pair of outer brackets), solcInput returns a document with
\* language Solidity whose sources map has the one key "file", whose
\* content is the raw source text; and in every constructed case (raw
\* text, or a parsed JSON object without a language field used as the
\* sources map), for a decimal runs field, optimizer.enabled is true
\* exactly when optimizationUsed is "1", optimizer.runs is the decimal
\* value of runs, and the output selection is * -> * -> [*].
C11_ConstructedDocuments ==
    iPhase = "called" =>
        LET text == iContract.sourceCode
            raw == NoJsonAtAll(text)
            fromJson == ~raw /\ ~Has(HeldJson(text), "language")
        IN  /\ raw =>
                 /\ iPlain.language = Str("Solidity")
                 /\ DOMAIN iPlain.sources = {"file"}
                 /\ DOMAIN iPlain.sources.file = {"content"}
                 /\ iPlain.sources.file.content = text
            /\ fromJson =>
                 /\ iPlain.language = Str("Solidity")
                 /\ iPlain.sources = HeldJson(text)
            /\ ((raw \/ fromJson) /\ IsDecimal(iContract.runs)) =>
                 /\ iPlain.settings.optimizer.enabled = (iContract.optimizationUsed = "1")
                 /\ iPlain.settings.optimizer.runs = Num(DecimalValue(iContract.runs))
                 /\ DOMAIN iPlain.settings.outputSelection = {"*"}
                 /\ DOMAIN iPlain.settings.outputSelection["*"] = {"*"}
                 /\ iPlain.settings.outputSelection["*"]["*"] = <<Str("*")>>

\* C11 witness: a record whose source starts with two brackets and is no
\* JSON, with the optimizer on and 200 runs, has been resolved to a
\* single-file document
C11_Witness ==
    /\ iPhase = "called"
    /\ StartsWithBraces(iContract.sourceCode)
    /\ NoJsonAtAll(iContract.sourceCode)
    /\ iContract.optimizationUsed = "1"
    /\ iContract.runs = <<"2", "0", "0">>
    /\ iPlain.sources.file.content = iContract.sourceCode
    /\ iPlain.settings.optimizer.runs = Num(200)

(***************************************************************************)
(* Claims about the predeploy handlers and the pool handler.               *)
(***************************************************************************)
\* the account of a dump that has the address
AccountAt(dump, address) ==
    dump[CHOOSE g \in 1..Len(dump) : dump[g].address = address]

\* the storage an object carries: none when it has no storage field
Stored(obj) == IF Has(obj, "storage") THEN obj.storage ELSE EmptyObject

\* merged is base overridden by genesis: a key of genesis has the value of
\* genesis, another key of base the value of base, and there is no other
IsMergeOf(merged, genesis, base) ==
    /\ DOMAIN merged = DOMAIN genesis \cup DOMAIN base
    /\ \A k \in DOMAIN merged :
         merged[k] = IF k \in DOMAIN genesis THEN genesis[k] ELSE base[k]

MergedVariants == {"PREDEPLOY_WIPE", "PREDEPLOY_NO_WIPE", "PREDEPLOY_ETH"}

\* C12: for an account processed as PREDEPLOY_WIPE, PREDEPLOY_NO_WIPE or
\* PREDEPLOY_ETH the output record has the address, nonce and balance of
\* the input and the code and codeHash of the genesis account; its storage
\* is, for NO_WIPE, the account's own storage overridden key by key by the
\* genesis storage, for ETH the storage of the legacy native-asset account
\* overridden by the genesis storage, and for WIPE exactly the genesis
\* storage.
C12_PredeployStorageMerge ==
    \A i \in 1..sIndex :
        LET variant == Classify(sDump[i], sData)
            account == sDump[i]
        IN  variant \in MergedVariants =>
            /\ Cardinality(OutputsAt(account.address)) = 1
            /\ \A j \in OutputsAt(account.address) :
                 LET out == sOutput[j]
                     genesis == AccountAt(sData.genesis, account.address)
                 IN  /\ out.address = account.address
                     /\ out.nonce = account.nonce
                     /\ out.balance = account.balance
                     /\ Has(out, "code") = Has(genesis, "code")
                     /\ Has(genesis, "code") => out.code = genesis.code
                     /\ out.codeHash = genesis.codeHash
                     /\ variant = "PREDEPLOY_WIPE" =>
                          /\ Has(out, "storage") = Has(genesis, "storage")
                          /\ Stored(out) = Stored(genesis)
                     /\ variant = "PREDEPLOY_NO_WIPE" =>
                          /\ Has(out, "storage")
                          /\ IsMergeOf(out.storage, Stored(genesis), Stored(account))
                     /\ variant = "PREDEPLOY_ETH" =>
                          /\ Has(out, "storage")
                          /\ IsMergeOf(out.storage, Stored(genesis),
                                       Stored(AccountAt(sDump, OLD_ETH_ADDRESS)))

\* C12 witness: the loop ended after a PREDEPLOY_ETH account whose genesis
\* storage shares a key with the storage of the legacy native-asset
\* account, and the output has a key that only the latter defines
C12_Witness ==
    /\ sPc = "done"
    /\ \E i \in 1..sIndex :
         /\ Classify(sDump[i], sData) = "PREDEPLOY_ETH"
         /\ Has(sDump[i], "storage")
         /\ \E j \in OutputsAt(sDump[i].address) :
              LET genesis == Stored(AccountAt(sData.genesis, sDump[i].address))
                  legacy == Stored(AccountAt(sDump, OLD_ETH_ADDRESS))
              IN  /\ DOMAIN genesis \cap DOMAIN legacy # {}
                  /\ (DOMAIN sOutput[j].storage) \ DOMAIN genesis # {}

\* of the three clients, the one the specification calls the new-chain
\* client: l2Provider serves the legacy chain and l1MainnetProvider is the
\* legacy mainnet client of the protocol-other variant
NewChainProvider == "l1TestnetProvider"

\* the new address the pool mapping gives for a legacy address
NewAddressOf(address) ==
    sData.pools[CHOOSE p \in 1..Len(sData.pools) :
                    sData.pools[p].oldAddress = address].newAddress

\* the bytecode fetches issued for an address
FetchesAt(address) == {r \in 1..Len(sRpc) : sRpc[r].address = address}

\* C13: for an account processed as UNISWAP_V3_POOL the output record is
\* at the new address the pool mapping gives for the legacy address, its
\* code is what the new-chain client answers for that new address, its
\* codeHash is the hash of that code, its nonce, balance and storage are
\* those of the input, and exactly one fetch was issued for it, to the
\* new-chain client.
C13_PoolHandler ==
    \A i \in 1..sIndex :
        Classify(sDump[i], sData) = "UNISWAP_V3_POOL" =>
            LET account == sDump[i]
                newAddress == NewAddressOf(account.address)
                fetched == SurgeryEnv.rpc[NewChainProvider][newAddress]
            IN  /\ OutputsAt(account.address) = {}
                /\ Cardinality(OutputsAt(newAddress)) = 1
                /\ \A j \in OutputsAt(newAddress) :
                     /\ sOutput[j].code = fetched
                     /\ sOutput[j].codeHash = Keccak256(fetched)
                     /\ sOutput[j].nonce = account.nonce
                     /\ sOutput[j].balance = account.balance
                     /\ Has(sOutput[j], "storage") = Has(account, "storage")
                     /\ Stored(sOutput[j]) = Stored(account)
                /\ Cardinality(FetchesAt(newAddress)) = 1
                /\ FetchesAt(account.address) = {}
                /\ \A r \in FetchesAt(newAddress) : sRpc[r].provider = NewChainProvider

\* C13 witness: the loop ended after a pool account that came with code
\* and storage, and after a second account that also needed a fetch
C13_Witness ==
    /\ sPc = "done"
    /\ Len(sRpc) = 2
    /\ \E i \in 1..sIndex :
         /\ Classify(sDump[i], sData) = "UNISWAP_V3_POOL"
         /\ Has(sDump[i], "storage")
         /\ Has(sDump[i], "code")
         /\ OutputsAt(NewAddressOf(sDump[i].address)) # {}

(***************************************************************************)
(* Claims about the compiler sessions of the VERIFIED handler.             *)
(***************************************************************************)
\* the first compilation produced the artifact of the contract
FirstArtifactFound ==
    /\ Has(vInput.compiler[StdSession], "contracts")
    /\ ContractLookup(vInput.compiler[StdSession], FoundRecord) = "found"

\* C14: the first session the VERIFIED handler requests is the one for
\* (mapped solc version, standard toolchain); when the artifact declares
\* non-empty immutable references, a second session is requested, the one
\* for (archived compilerVersion, OVM toolchain), a pair different from
\* the first; without immutable references no second session is requested.
C14_CompilerSessions ==
    (vPhase = "called" /\ vSolc # <<>>) =>
        /\ vSolc[1] = [module |-> COMPILER_VERSIONS_TO_SOLC[FoundRecord.compilerVersion],
                       toolchain |-> "solc-emscripten-wasm32"]
        /\ FirstArtifactFound =>
             IF HasImmutables
             THEN /\ Len(vSolc) = 2
                  /\ vSolc[2] = [module |-> FoundRecord.compilerVersion, toolchain |-> "ovm"]
                  /\ vSolc[2] # vSolc[1]
             ELSE Len(vSolc) = 1

(***************************************************************************)
(* Claims about the l2output driver.                                       *)
(***************************************************************************)
\* C15: a GetBatchBlockRange call that returned without error returned as
\* start the L2 block number of the latest committed timestamp plus one;
\* as end it returned start when the latest L1 timestamp was before the
\* next submission timestamp, and the L2 block number of the next
\* submission timestamp plus one when the latest L1 timestamp was at or
\* after it.
C15_BatchBlockRange ==
    (dPc # "off" /\ dRange # <<>> /\ dRange.result.err = Nil) =>
        LET chain == dRange.at
            next == chain.latest + chain.interval
        IN  /\ dRange.result.start = ComputeL2BlockNumber(chain, chain.latest) + 1
            /\ chain.l1Time < next => dRange.result.end = dRange.result.start
            /\ chain.l1Time >= next =>
                 dRange.result.end = ComputeL2BlockNumber(chain, next) + 1

\* what both methods promise of their attempts: at most two, the second
\* only after the first failed for want of eth_maxPriorityFeePerGas, with
\* the nonce and call data of the first and the fallback tip; another
\* error of the first attempt is the error returned
AttemptsAsPromised(result) ==
    LET attempts == result.attempts
    IN  /\ Len(attempts) <= 2
        /\ Len(attempts) = 2 =>
             /\ attempts[1].err = MaxPriorityFeePerGasNotFound
             /\ attempts[2].nonce = attempts[1].nonce
             /\ attempts[2].data = attempts[1].data
             /\ attempts[2].noSend = attempts[1].noSend
             /\ attempts[2].gasTipCap = FallbackGasTipCap
        /\ (Len(attempts) >= 1 /\ attempts[1].err = MaxPriorityFeePerGasNotFound) =>
             Len(attempts) = 2
        /\ (Len(attempts) >= 1
              /\ attempts[1].err \notin {Nil, MaxPriorityFeePerGasNotFound}) =>
                 /\ Len(attempts) = 1
                 /\ result.kind = "err"
                 /\ result.err = attempts[1].err

\* C16: CraftBatchTx publishes nothing, each of its attempts being made
\* with sending disabled, and it yields a transaction only when end - 1 is
\* the L2 block number of the oracle's next timestamp; CraftBatchTx and
\* SubmitBatchTx make at most two attempts, the second only when the first
\* failed because eth_maxPriorityFeePerGas is unsupported, with the same
\* nonce and call data and the fallback gas tip cap; any other error is
\* returned without a second attempt.
C16_CraftAndSubmit ==
    /\ (dPc # "off" /\ dCraft # <<>>) =>
         /\ \A a \in 1..Len(dCraft.result.attempts) : dCraft.result.attempts[a].noSend
         /\ dPc \in {"crafted", "failed", "panicked"} /\ dSubmit = <<>> => dPublished = <<>>
         /\ dCraft.result.kind = "tx" =>
              /\ dCraft.end - 1 =
                   ComputeL2BlockNumber(dCraft.at, dCraft.at.latest + dCraft.at.interval)
              /\ dCraft.result.tx.nonce = dCraft.nonce
         /\ AttemptsAsPromised(dCraft.result)
    /\ (dPc # "off" /\ dSubmit # <<>>) =>
         /\ AttemptsAsPromised(dSubmit.result)
         /\ \A a \in 1..Len(dSubmit.result.attempts) :
              /\ dSubmit.result.attempts[a].nonce = dSubmit.tx.nonce
              /\ dSubmit.result.attempts[a].data = dSubmit.tx.data
         /\ Len(dPublished) <= 1

\* C16 witness: a transaction was crafted at the second attempt and
\* submitted at the second attempt
C16_Witness ==
    /\ dPc = "submitted"
    /\ Len(dCraft.result.attempts) = 2
    /\ Len(dSubmit.result.attempts) = 2
    /\ dPublished = <<dSubmit.result.tx>>
    /\ dSubmit.result.tx.gasTipCap = FallbackGasTipCap

====
